---- MODULE Spec2Model ----
(***************************************************************************)
(* Weekly production planning demo (pixelesent/ICC_demo).                  *)
(*                                                                         *)
(* Two programs share one deterministic pipeline:                          *)
(*   app.py  - the Streamlit run: consolidate_weekly_demand, net_demand,   *)
(*             packaging_explosion, the merge, the decision loop;          *)
(*   main.py - the job worker: calcular_demanda_neta, explosion_empaque.   *)
(*                                                                         *)
(* Numbers that the code handles as floats are kept in halves (the value   *)
(* 3 stands for 1.5), dates are day numbers.  A sheet cell is a record     *)
(* [k, v]: k = "num" (v in halves), "date" (v a day), "nan" (blank cell)   *)
(* or "bad" (text that does not parse).                                    *)
(***************************************************************************)
EXTENDS Integers, Sequences, FiniteSets, TLC

VARIABLES
    \* inputs of a run (sheet tabs / Supabase tables, UI parameters)
    pedidos, pt, bom, comp, week_start, week_end, tolerance_days,
    \* app.py: position of the run and the frames it builds
    pc, demanda_bruta, demanda_neta_df, exp, empaque_status, out,
    decisions, ia_calls, shown,
    \* main.py: the job's request, position and the lists it builds
    demanda, mpc, demanda_neta, estados, empaque,
    \* main.py: the two Supabase tables, the background tasks, the result
    \* query in flight and the last response it gave
    planificacion_jobs, planificacion_resultados, tasks, consulta, respuesta

inputs   == <<pedidos, pt, bom, comp, week_start, week_end, tolerance_days>>
appVars  == <<pc, demanda_bruta, demanda_neta_df, exp, empaque_status, out,
              decisions, ia_calls, shown>>
mainVars == <<demanda, mpc, demanda_neta, estados, empaque>>
jobVars  == <<planificacion_jobs, planificacion_resultados, tasks, consulta,
              respuesta>>
vars     == <<inputs, appVars, mainVars, jobVars>>

---------------------------------------------------------------------------
\* Bounds of the model

MaxQty      == 2      \* largest whole quantity drawn for demand and stock
MaxOrders   == 2      \* longest order table / request list
MaxBomLines == 2      \* longest BOM table
MaxDay      == 3      \* dates are the days 0..MaxDay
WeekStart   == 1      \* the planning week drawn for a run
WeekEnd     == 2
MaxTol      == 1      \* tolerance window drawn from 0..MaxTol
MaxJobs     == 2      \* planning jobs created in one behaviour

SkuOrder  == <<"A", "B">>        \* product identifiers, in sort order
CompOrder == <<"C1", "C2">>      \* component identifiers, in sort order
Blank     == ""                  \* a blank key cell (NaN after the sheet read)

Cell(k, v) == [k |-> k, v |-> v]
NaN        == Cell("nan", 0)
Bad        == Cell("bad", 0)
Num(h)     == Cell("num", h)
Dt(d)      == Cell("date", d)

Max(a, b) == IF a >= b THEN a ELSE b
Range(s)  == {s[i] : i \in 1..Len(s)}

RECURSIVE Flatten(_)
Flatten(ss) == IF ss = <<>> THEN <<>> ELSE Head(ss) \o Flatten(Tail(ss))

---------------------------------------------------------------------------
\* Type coercion

\* app.py to_int: blank -> default 0; text -> int(float(text)), which drops
\* the fraction; anything that does not parse -> 0.
to_int(x) == IF x.k = "num" THEN x.v \div 2 ELSE 0

\* app.py to_float: the same tolerance, the fraction is kept (halves).
to_float(x) == IF x.k = "num" THEN x.v ELSE 0

\* app.py to_date_safe: blank or unparseable -> None.
to_date_safe(x) ==
    IF x.k = "date" THEN [some |-> TRUE, d |-> x.v] ELSE [some |-> FALSE, d |-> 0]

\* main.py safe_int / safe_float: int(x) / float(x), default on any exception.
safe_int(x) == IF x.k = "num" THEN x.v \div 2 ELSE 0

safe_float(x) == IF x.k = "num" THEN x.v ELSE 0

---------------------------------------------------------------------------
\* app.py consolidate_weekly_demand

PedidosCols == {"SKU", "Cantidad", "Fecha_Requerida"}

\* the date filter of lines 120-121, with the end of the week left out
InWindowOpenEnd(o, ws, we) ==
    LET d == to_date_safe(o.Fecha_Requerida)
    IN  d.some /\ d.d >= ws /\ d.d < we

\* lines 117, 120-121: the parsed date is present and inside [ws, we]
InWindow(o, ws, we) ==
    LET d == to_date_safe(o.Fecha_Requerida)
    IN  d.some /\ d.d >= ws /\ d.d <= we

RECURSIVE SumCantidad(_)
SumCantidad(rows) ==
    IF rows = <<>> THEN 0
    ELSE to_int(Head(rows).Cantidad) + SumCantidad(Tail(rows))

consolidate_weekly_demand(p, ws, we) ==
    IF p.rows = <<>> THEN <<>>
    ELSE IF ~(PedidosCols \subseteq p.cols) THEN <<>>
    ELSE LET df     == SelectSeq(p.rows, LAMBDA o : InWindow(o, ws, we))
             Grp(s) == SelectSeq(df, LAMBDA o : o.SKU = s)
             \* groupby sorts the keys and drops the blank ones
             keys   == SelectSeq(SkuOrder, LAMBDA s : Grp(s) # <<>>)
         IN  [i \in 1..Len(keys) |->
                [SKU |-> keys[i], Demanda_Bruta |-> SumCantidad(Grp(keys[i]))]]

---------------------------------------------------------------------------
\* app.py net_demand

NetRow(d, inv, neta) ==
    [SKU |-> d.SKU, Demanda_Bruta |-> d.Demanda_Bruta,
     Inventario_PT |-> inv, Demanda_Neta |-> neta]

\* line 147 without clip(lower=0)
ClipNetaNoFloor(bruta, inv) == bruta - inv

\* line 147: (bruta - inventory).clip(lower=0)
ClipNeta(bruta, inv) == Max(0, bruta - inv)

net_demand(db, p) ==
    IF db = <<>> THEN <<>>
    ELSE IF p.rows = <<>> \/ "SKU" \notin p.cols \/ "Inventario" \notin p.cols
    THEN [i \in 1..Len(db) |-> NetRow(db[i], 0, Max(0, db[i].Demanda_Bruta))]
    ELSE LET pt2 == SelectSeq(p.rows, LAMBDA r : r.SKU # Blank)
             \* left merge on SKU: one row per match, one row when none
             Joined(d) ==
                 LET m == SelectSeq(pt2, LAMBDA r : r.SKU = d.SKU)
                 IN  IF m = <<>> THEN << NetRow(d, 0, ClipNeta(d.Demanda_Bruta, 0)) >>
                     ELSE [j \in 1..Len(m) |->
                            NetRow(d, to_int(m[j].Inventario),
                                   ClipNeta(d.Demanda_Bruta, to_int(m[j].Inventario)))]
         IN  Flatten([i \in 1..Len(db) |-> Joined(db[i])])

---------------------------------------------------------------------------
\* main.py index_by_key and calcular_demanda_neta

\* index_by_key: a dict from str(row[key]) to the row; rows whose key is None
\* are skipped and the last row carrying a key wins.
IndexHas(rows, field, key) ==
    key # Blank /\ \E i \in 1..Len(rows) : rows[i][field] = key

index_by_key(rows, field, key) ==
    rows[CHOOSE i \in 1..Len(rows) :
            /\ rows[i][field] = key
            /\ \A j \in (i+1)..Len(rows) : rows[j][field] # key]

calcular_demanda_neta(dem, prod) ==
    [i \in 1..Len(dem) |->
        LET sku   == dem[i].SKU
            inv   == IF IndexHas(prod, "SKU", sku)
                     THEN safe_int(index_by_key(prod, "SKU", sku).Inventario)
                     ELSE safe_int(Num(0))
            bruta == safe_int(dem[i].demanda_bruta)
        IN  [SKU |-> sku, Demanda_Bruta |-> bruta, Inventario_PT |-> inv,
             Demanda_Neta |-> Max(0, bruta - inv)]]

---------------------------------------------------------------------------
\* app.py packaging_explosion

BomCols  == {"SKU", "Componente", "Cantidad_por_unidad"}
CompCols == {"Componente", "Inventario", "En_Proceso", "Fecha_Estimada"}
NoDate   == [some |-> FALSE, d |-> 0]

\* lines 178-196: the exploded frame, one row per (product, BOM line,
\* component row); a product without BOM line, and a BOM line without
\* component row, keep one row whose joined columns are NaN.
ExpRow(d, componente, req, matched, inv, wip, eta) ==
    [SKU |-> d.SKU, Demanda_Neta |-> d.Demanda_Neta, Componente |-> componente,
     Req |-> req, matched |-> matched, Inv |-> inv, WIP |-> wip, ETA |-> eta]

Explode(dn, b, c) ==
    LET bom2  == SelectSeq(b.rows, LAMBDA l : l.SKU # Blank /\ l.Componente # Blank)
        comp2 == SelectSeq(c.rows, LAMBDA r : r.Componente # Blank)
        OfLine(d, l) ==
            LET m   == SelectSeq(comp2, LAMBDA r : r.Componente = l.Componente)
                req == d.Demanda_Neta * to_float(l.Cantidad_por_unidad)
            IN  IF m = <<>>
                THEN << ExpRow(d, l.Componente, req, FALSE, 0, 0, NoDate) >>
                ELSE [j \in 1..Len(m) |->
                        ExpRow(d, l.Componente, req, TRUE,
                               to_int(m[j].Inventario), to_int(m[j].En_Proceso),
                               to_date_safe(m[j].Fecha_Estimada))]
        OfSku(d) ==
            LET ls == SelectSeq(bom2, LAMBDA l : l.SKU = d.SKU)
            IN  IF ls = <<>>
                THEN << ExpRow(d, Blank, 0, FALSE, 0, 0, NoDate) >>
                ELSE Flatten([k \in 1..Len(ls) |-> OfLine(d, ls[k])])
    IN  Flatten([i \in 1..Len(dn) |-> OfSku(dn[i])])

\* comp_status, lines 203-219.  Req is in halves, Inv and WIP are whole.
\*   line 205: int(NaN) raises ValueError for a row without component match;
\*   line 214: tolerance_date is week_end + Timedelta, a datetime.date, so
\*             tolerance_date.date() raises AttributeError as soon as the
\*             estimated arrival is present; lines 215-218 are never reached.
comp_status(row) ==
    IF ~row.matched THEN "ValueError"
    ELSE IF row.Req <= 0 THEN "OK"
    ELSE IF 2 * row.Inv >= row.Req THEN "OK"
    ELSE IF row.ETA.some THEN "AttributeError"
    ELSE "BLOQUEADO"

Raises(e) == e \in {"ValueError", "AttributeError"}

\* line 221: apply() evaluates the rows in order and stops at the first raise
ApplyStatus(rows) ==
    [i \in 1..Len(rows) |->
        [SKU |-> rows[i].SKU, Demanda_Neta |-> rows[i].Demanda_Neta,
         Componente |-> rows[i].Componente, Req |-> rows[i].Req,
         matched |-> rows[i].matched, Inv |-> rows[i].Inv, WIP |-> rows[i].WIP,
         ETA |-> rows[i].ETA,
         CompEstado |->
            IF \E j \in 1..(i-1) : Raises(comp_status(rows[j]))
            THEN "NotEvaluated"
            ELSE comp_status(rows[i])]]

\* lines 232-237: the hard rule of the aggregation
SkuEstado(es) ==
    IF "BLOQUEADO" \in es THEN "BLOQUEADO"
    ELSE IF "RIESGO" \in es THEN "RIESGO"
    ELSE "OK"

DetailCap == 6

\* lines 212-219, 230, 242: the notes of a product, the empty ones dropped
Notas(g) ==
    LET n == SelectSeq(g, LAMBDA r : ~(r.CompEstado = "OK" /\ r.Req <= 0))
        l == [i \in 1..Len(n) |-> <<n[i].Componente, n[i].CompEstado>>]
    IN  IF Len(l) <= DetailCap THEN l ELSE SubSeq(l, 1, DetailCap)

\* lines 227-245
SkuStates(e) ==
    LET Grp(s) == SelectSeq(e, LAMBDA r : r.SKU = s)
        keys   == SelectSeq(SkuOrder, LAMBDA s : Grp(s) # <<>>)
    IN  [i \in 1..Len(keys) |->
            [SKU |-> keys[i],
             Estado_Empaque  |-> SkuEstado({r.CompEstado : r \in Range(Grp(keys[i]))}),
             Detalle_Empaque |-> Notas(Grp(keys[i]))]]

\* lines 164-176: every demanded product RIESGO, with the diagnostic note
Incompleta(dn, nota) ==
    [i \in 1..Len(dn) |->
        [SKU |-> dn[i].SKU, Estado_Empaque |-> "RIESGO", Detalle_Empaque |-> nota]]

\* the whole function: [raised, exp, rows]
packaging_explosion(dn, b, c) ==
    IF dn = <<>> THEN [raised |-> FALSE, exp |-> <<>>, rows |-> <<>>]
    ELSE IF b.rows = <<>> \/ ~(BomCols \subseteq b.cols)
    THEN [raised |-> FALSE, exp |-> <<>>,
          rows |-> Incompleta(dn, "BOM_EMPAQUE incompleta")]
    ELSE IF c.rows = <<>> \/ ~(CompCols \subseteq c.cols)
    THEN [raised |-> FALSE, exp |-> <<>>,
          rows |-> Incompleta(dn, "COMPONENTES_EMPAQUE incompleta")]
    ELSE LET e == ApplyStatus(Explode(dn, b, c))
         IN  IF \E i \in 1..Len(e) : Raises(e[i].CompEstado)
             THEN [raised |-> TRUE, exp |-> e, rows |-> <<>>]
             ELSE [raised |-> FALSE, exp |-> e, rows |-> SkuStates(e)]

---------------------------------------------------------------------------
\* main.py explosion_empaque

\* lines 163-186: the status of one BOM line (all quantities in halves);
\* the estimated arrival of the component is not read.
LineaEstado(neta, b, componentes) ==
    IF b.Componente = Blank THEN "BLOQUEADO"
    ELSE IF ~IndexHas(componentes, "Componente", b.Componente) THEN "BLOQUEADO"
    ELSE LET c          == index_by_key(componentes, "Componente", b.Componente)
             requerido  == safe_float(b.Cantidad_por_unidad) * neta
             inv        == safe_float(c.Inventario)
             en_proceso == safe_float(c.En_Proceso)
         IN  IF inv >= requerido THEN "OK"
             ELSE IF inv + en_proceso >= requerido THEN "RIESGO"
             ELSE "BLOQUEADO"

\* lines 192-197 with RIESGO tested before BLOQUEADO
RowEstadoRiskFirst(es) ==
    IF "RIESGO" \in Range(es) THEN "RIESGO"
    ELSE IF "BLOQUEADO" \in Range(es) THEN "BLOQUEADO"
    ELSE "OK"

\* lines 192-197
RowEstado(es) ==
    IF "BLOQUEADO" \in Range(es) THEN "BLOQUEADO"
    ELSE IF "RIESGO" \in Range(es) THEN "RIESGO"
    ELSE "OK"

\* lines 141-145, 158: the BOM lines of a product, blank products skipped
bom_por_sku(b, sku) == SelectSeq(b, LAMBDA l : l.SKU # Blank /\ l.SKU = sku)

\* lines 159-190: the estados list built for one net-demand row
EstadosDe(row, b, componentes) ==
    LET neta == row.Demanda_Neta      \* safe_int of a stored integer
        ls   == bom_por_sku(b, row.SKU)
    IN  IF neta <= 0 THEN <<>>
        ELSE [k \in 1..Len(ls) |-> LineaEstado(neta, ls[k], componentes)]

\* lines 166, 172, 189-190: the detalles list
DetallesDe(row, b, componentes) ==
    LET ls  == bom_por_sku(b, row.SKU)
        es  == EstadosDe(row, b, componentes)
        idx == SelectSeq([k \in 1..Len(es) |-> k], LAMBDA k : es[k] # "OK")
    IN  [n \in 1..Len(idx) |->
            IF ls[idx[n]].Componente = Blank THEN "COMPONENTE_ID_MISSING"
            ELSE ls[idx[n]].Componente]

\* lines 147-202: every row of demanda_neta is updated in place and the
\* result list holds those same rows.
explosion_empaque(dn, b, componentes) ==
    [i \in 1..Len(dn) |->
        [SKU |-> dn[i].SKU, Demanda_Bruta |-> dn[i].Demanda_Bruta,
         Inventario_PT |-> dn[i].Inventario_PT, Demanda_Neta |-> dn[i].Demanda_Neta,
         Estado_Empaque  |-> RowEstado(EstadosDe(dn[i], b, componentes)),
         Detalle_Empaque |-> DetallesDe(dn[i], b, componentes)]]

---------------------------------------------------------------------------
\* app.py decision step

HardDict ==
    [kind |-> "dict", decision |-> "NO_PRODUCIR",
     razon |-> "Empaque BLOQUEADO (restriccion inviolable).", confianza |-> "1.0"]

FallbackDict ==
    [kind |-> "dict", decision |-> "NO_PRODUCIR",
     razon |-> "Respuesta IA invalida (fallback).", confianza |-> "0.0"]

Decisiones == {"PRODUCIR", "PRODUCIR_CON_RIESGO", "NO_PRODUCIR"}

\* What the collaborator call can come back with:
\*   timeout - chat.completions.create raises (timeout, transport failure)
\*   text    - the content is not JSON
\*   array   - the content is JSON but not an object
\*   object  - a JSON object; decision "None" stands for a missing key
Responses ==
    {[kind |-> "object", decision |-> d, confianza |-> "0.8"] :
        d \in Decisiones \cup {"MAYBE", "None"}}
    \cup {[kind |-> k, decision |-> "None", confianza |-> "None"] :
            k \in {"text", "array", "timeout"}}

\* lines 310-314: json.loads(txt), the fallback only when it raises
call_ia_decision(r) ==
    IF r.kind = "text" THEN FallbackDict
    ELSE [kind |-> IF r.kind = "object" THEN "dict" ELSE "list",
          decision |-> r.decision, razon |-> "ia", confianza |-> r.confianza]

\* line 318 with the comparison against the wrong literal
HardRuleWrongLiteral(row) == row.Estado_Empaque = "BLOCKED"

\* line 318: the rule applied before the collaborator is called
HardRule(row) == row.Estado_Empaque = "BLOQUEADO"

\* lines 321-332: the payload handed to the collaborator
Payload(row) ==
    [sku |-> row.SKU, demanda_neta |-> row.Demanda_Neta,
     estado_empaque |-> row.Estado_Empaque, detalle_empaque |-> row.Detalle_Empaque]

\* lines 379-388: the left merge of the net demand with the packaging status
\* (the CEM, capacity and week-label columns are context only)
MergeFinal(dn, es) ==
    LET Joined(d) ==
            LET m == SelectSeq(es, LAMBDA e : e.SKU = d.SKU)
            IN  [j \in 1..Len(m) |->
                    [SKU |-> d.SKU, Demanda_Bruta |-> d.Demanda_Bruta,
                     Inventario_PT |-> d.Inventario_PT,
                     Demanda_Neta |-> d.Demanda_Neta,
                     Estado_Empaque |-> m[j].Estado_Empaque,
                     Detalle_Empaque |-> m[j].Detalle_Empaque]]
    IN  Flatten([i \in 1..Len(dn) |-> Joined(dn[i])])

\* lines 396-410: the table that is displayed
ShowRow(row, d) ==
    [SKU |-> row.SKU, Demanda_Neta |-> row.Demanda_Neta,
     Estado_Empaque |-> row.Estado_Empaque,
     Decision_IA |-> d.decision, Razon_IA |-> d.razon, Confianza |-> d.confianza]

---------------------------------------------------------------------------
\* Input sets

Skus  == Range(SkuOrder)
Comps == Range(CompOrder)

Table(cols, rows) == [cols |-> cols, rows |-> rows]
SeqsUpTo(S, n)    == UNION {[1..k -> S] : k \in 0..n}
Whole(n)          == Num(2 * n)

\* order tables
QtyCells  == {Num(h) : h \in 3..(2 * MaxQty)} \cup {Bad}
DateCells == {Dt(d) : d \in 0..MaxDay} \cup {NaN}
Orders    ==
    [SKU : Skus, Cantidad : QtyCells, Fecha_Requerida : DateCells]
    \cup {[SKU |-> Blank, Cantidad |-> Whole(1), Fecha_Requerida |-> Dt(WeekStart)]}

PedidosRich ==
    {Table(PedidosCols, r) : r \in SeqsUpTo(Orders, MaxOrders)}
    \cup {Table(PedidosCols \ {"Cantidad"},
                << [SKU |-> "A", Cantidad |-> NaN, Fecha_Requerida |-> Dt(WeekStart)] >>)}

\* one order per product, inside the week
PedidosSimple ==
    {Table(PedidosCols,
           [i \in 1..Len(q) |-> [SKU |-> SkuOrder[i], Cantidad |-> Whole(q[i]),
                                 Fecha_Requerida |-> Dt(WeekStart)]]) :
        q \in SeqsUpTo(0..MaxQty, Len(SkuOrder))}

\* request lists of main.py (validated: SKU non-empty, demanda_bruta >= 0)
Demandas ==
    SeqsUpTo([SKU : Skus, demanda_bruta : {Whole(n) : n \in 0..MaxQty}], MaxOrders)

\* finished-goods tables, one row per product identifier
InvCells == {Whole(n) : n \in 0..MaxQty} \cup {NaN}
PtTables ==
    {Table({"SKU", "Inventario"},
           [i \in 1..Len(v) |-> [SKU |-> SkuOrder[i], Inventario |-> v[i]]]) :
        v \in SeqsUpTo(InvCells, Len(SkuOrder))}
    \cup {Table({"SKU"}, << [SKU |-> "A", Inventario |-> NaN] >>)}

PtOne == Table({"SKU", "Inventario"}, << [SKU |-> "A", Inventario |-> Whole(1)] >>)

\* net-demand rows as net_demand / calcular_demanda_neta leave them
NetTables ==
    {[i \in 1..Len(q) |->
        [SKU |-> SkuOrder[i], Demanda_Bruta |-> q[i], Inventario_PT |-> 0,
         Demanda_Neta |-> q[i]]] :
        q \in SeqsUpTo(0..MaxQty, Len(SkuOrder))}

\* BOM tables
BomLines ==
    [SKU : {"A"}, Componente : Comps, Cantidad_por_unidad : {Num(1), Whole(1)}]
    \cup {[SKU |-> "B", Componente |-> "C1", Cantidad_por_unidad |-> Whole(1)],
          [SKU |-> "A", Componente |-> Blank, Cantidad_por_unidad |-> Whole(1)]}

BomTables ==
    {Table(BomCols, r) : r \in SeqsUpTo(BomLines, MaxBomLines)}
    \cup {Table(BomCols \ {"Cantidad_por_unidad"},
                << [SKU |-> "A", Componente |-> "C1", Cantidad_por_unidad |-> NaN] >>)}

\* component tables, one row per component identifier
CompRow(c, inv, wip, eta) ==
    [Componente |-> c, Inventario |-> inv, En_Proceso |-> wip, Fecha_Estimada |-> eta]

FirstRows ==
    {CompRow(CompOrder[1], i, w, e) :
        i \in {Whole(0), Whole(1), Num(3)}, w \in {Whole(0), Whole(1)},
        e \in {NaN, Dt(MaxDay)}}

SecondRows ==
    {CompRow(CompOrder[2], i, Whole(0), NaN) : i \in {Whole(0), Whole(MaxQty)}}

CompTables ==
    {Table(CompCols, <<>>)}
    \cup {Table(CompCols, << r >>) : r \in FirstRows}
    \cup {Table(CompCols, << r, s >>) : r \in FirstRows, s \in SecondRows}
    \cup {Table(CompCols \ {"Fecha_Estimada"},
                << CompRow(CompOrder[1], Whole(MaxQty), Whole(0), NaN) >>)}

NoTable == Table({}, <<>>)

---------------------------------------------------------------------------
\* app.py: the run started by the button (lines 354-410)

AppIdle ==
    /\ demanda_bruta = <<>> /\ demanda_neta_df = <<>> /\ exp = <<>>
    /\ empaque_status = <<>> /\ out = <<>> /\ decisions = <<>>
    /\ ia_calls = <<>> /\ shown = <<>>

MainIdle ==
    /\ demanda_neta = <<>> /\ estados = <<>> /\ empaque = <<>>

\* line 367
ConsolidateWeeklyDemand ==
    /\ pc = "consolidate"
    /\ demanda_bruta' = consolidate_weekly_demand(pedidos, week_start, week_end)
    /\ pc' = "net"
    /\ UNCHANGED <<jobVars, inputs, mainVars,
                   demanda_neta_df, exp, empaque_status, out,
                   decisions, ia_calls, shown>>

\* line 370
NetDemand ==
    /\ pc = "net"
    /\ demanda_neta_df' = net_demand(demanda_bruta, pt)
    /\ pc' = "packaging"
    /\ UNCHANGED <<jobVars, inputs, mainVars,
                   demanda_bruta, exp, empaque_status, out,
                   decisions, ia_calls, shown>>

\* line 373; an exception ends the run
PackagingExplosion ==
    /\ pc = "packaging"
    /\ LET r == packaging_explosion(demanda_neta_df, bom, comp)
       IN  /\ exp' = r.exp
           /\ empaque_status' = r.rows
           /\ pc' = IF r.raised THEN "raised" ELSE "merge"
    /\ UNCHANGED <<jobVars, inputs, mainVars,
                   demanda_bruta, demanda_neta_df, out,
                   decisions, ia_calls, shown>>

\* lines 379-388
Merge ==
    /\ pc = "merge"
    /\ out' = MergeFinal(demanda_neta_df, empaque_status)
    /\ pc' = "decide"
    /\ UNCHANGED <<jobVars, inputs, mainVars,
                   demanda_bruta, demanda_neta_df, exp,
                   empaque_status, decisions, ia_calls, shown>>

\* lines 392-394 with decide_for_row (316-333) and call_ia_decision (297-314):
\* one iteration of the loop.  The exception of a failed call is not caught.
DecideRow ==
    /\ pc = "decide"
    /\ Len(decisions) < Len(out)
    /\ LET i   == Len(decisions) + 1
           row == out[i]
       IN  IF HardRule(row)
           THEN /\ decisions' = Append(decisions, HardDict)
                /\ UNCHANGED <<ia_calls, pc>>
           ELSE \E r \in Responses :
                /\ ia_calls' = Append(ia_calls,
                                      [row |-> i, payload |-> Payload(row), resp |-> r])
                /\ IF r.kind = "timeout"
                   THEN pc' = "raised" /\ UNCHANGED decisions
                   ELSE /\ decisions' = Append(decisions, call_ia_decision(r))
                        /\ UNCHANGED pc
    /\ UNCHANGED <<jobVars, inputs, mainVars,
                   demanda_bruta, demanda_neta_df, exp,
                   empaque_status, out, shown>>

\* lines 396-410: d.get(...) on every decision, then the table is displayed;
\* a decision that is not a dict has no get()
Show ==
    /\ pc = "decide"
    /\ Len(decisions) = Len(out)
    /\ IF \E i \in 1..Len(decisions) : decisions[i].kind # "dict"
       THEN pc' = "raised" /\ UNCHANGED shown
       ELSE /\ shown' = [i \in 1..Len(out) |-> ShowRow(out[i], decisions[i])]
            /\ pc' = "done"
    /\ UNCHANGED <<jobVars, inputs, mainVars,
                   demanda_bruta, demanda_neta_df, exp,
                   empaque_status, out, decisions, ia_calls>>

---------------------------------------------------------------------------
\* main.py: the calculations of process_job (lines 239-240)

CalcularDemandaNeta ==
    /\ mpc = "neta"
    /\ demanda_neta' = calcular_demanda_neta(demanda, pt.rows)
    /\ mpc' = "empaque"
    /\ UNCHANGED <<jobVars, inputs, appVars, demanda, estados, empaque>>

\* explosion_empaque writes into the rows of demanda_neta and returns them
ExplosionEmpaque ==
    /\ mpc = "empaque"
    /\ estados' = [i \in 1..Len(demanda_neta) |->
                      EstadosDe(demanda_neta[i], bom.rows, comp.rows)]
    /\ empaque' = explosion_empaque(demanda_neta, bom.rows, comp.rows)
    /\ demanda_neta' = empaque'
    /\ mpc' = "done"
    /\ UNCHANGED <<jobVars, inputs, appVars, demanda>>

---------------------------------------------------------------------------
\* main.py: the job store, the background worker and the result query
\*
\* planificacion_jobs is the sequence of inserted job rows; the job_id that
\* uuid4() generates is kept as the position of the row.  The timestamp
\* columns (created_at, started_at, finished_at, updated_at) are left out.
\* planificacion_resultados is a set of rows keyed by job_id.

JobIds == 1..MaxJobs

Null == [null |-> TRUE]        \* Python's None where a row or dict is expected

\* lines 275-284: the row inserted by planificacion_semanal
JobRow(id, ws, we, dem) ==
    [job_id |-> id, week_start |-> ws, week_end |-> we, demanda |-> dem,
     status |-> "queued", error_message |-> "None"]

\* a background task: its position in process_job, the job row it has read,
\* the payload it has built and the exception it is handling
NewTask ==
    [pc |-> "processing", job |-> Null, resultado |-> Null, e |-> "None"]

\* .update({...}).eq("job_id", id): the status columns of one row
UpdateStatus(T, id, status, msg) ==
    [k \in 1..Len(T) |->
        IF T[k].job_id = id
        THEN [T[k] EXCEPT !.status = status, !.error_message = msg]
        ELSE T[k]]

\* lines 244-248 without the write
UpsertNoWrite(T, row) == T

\* lines 244-248: .upsert(row), the row of the same job_id is replaced
Upsert(T, row) == {r \in T : r.job_id # row.job_id} \cup {row}

\* lines 204-210
build_result_payload(ws, we, dn, emp) ==
    [week |-> [start |-> ws, end |-> we], demanda_neta |-> dn, empaque |-> emp,
     nota |-> "Calculo real: demanda neta + explosion de empaque."]

\* line 297: the columns the query selects
JobView(job) ==
    [job_id |-> job.job_id, status |-> job.status,
     error_message |-> job.error_message,
     week_start |-> job.week_start, week_end |-> job.week_end]

\* line 308 with the test widened to every final status
EsFinal(status) == status \in {"done", "error"}

\* line 308
EsDone(status) == status = "done"

NoConsulta   == [pc |-> "idle", job_id |-> 0, job |-> Null]
SinRespuesta == [status_code |-> 0]

JobsIdle ==
    /\ planificacion_jobs = <<>> /\ planificacion_resultados = {}
    /\ tasks = <<>> /\ consulta = NoConsulta /\ respuesta = SinRespuesta

\* request bodies accepted by BackendInputMin (SKU non-empty, demanda_bruta >= 0)
JobDemandas ==
    {<<>>,
     << [SKU |-> "A", demanda_bruta |-> Whole(MaxQty)],
        [SKU |-> "B", demanda_bruta |-> Whole(0)] >>}

\* the exceptions a Supabase call raises; the call has then written nothing
StoreErrors == {"APIError"}

SetTask(j, t) == [tasks EXCEPT ![j] = t]

Raise(j, err) ==
    /\ tasks' = SetTask(j, [tasks[j] EXCEPT !.pc = "except", !.e = err])
    /\ UNCHANGED <<planificacion_jobs, planificacion_resultados>>

\* POST /planificacion/semanal, lines 270-292: insert the queued job and
\* start its task.  (When the insert raises, no job and no task exist.)
PlanificacionSemanal ==
    /\ Len(planificacion_jobs) < MaxJobs
    /\ \E dem \in JobDemandas :
         LET job_id == Len(planificacion_jobs) + 1
         IN  /\ planificacion_jobs' =
                   Append(planificacion_jobs,
                          JobRow(job_id, week_start, week_end, dem))
             /\ tasks' = Append(tasks, NewTask)
    /\ UNCHANGED <<inputs, appVars, mainVars, planificacion_resultados,
                   consulta, respuesta>>

\* process_job, lines 219-222
MarkProcessing(j) ==
    /\ tasks[j].pc = "processing"
    /\ \/ /\ planificacion_jobs' =
                UpdateStatus(planificacion_jobs, j, "processing",
                             planificacion_jobs[j].error_message)
          /\ tasks' = SetTask(j, [tasks[j] EXCEPT !.pc = "read"])
          /\ UNCHANGED planificacion_resultados
       \/ \E err \in StoreErrors : Raise(j, err)
    /\ UNCHANGED <<inputs, appVars, mainVars, consulta, respuesta>>

\* process_job, lines 225-233: the inserted row is always found
ReadJob(j) ==
    /\ tasks[j].pc = "read"
    /\ \/ /\ tasks' = SetTask(j, [tasks[j] EXCEPT !.pc = "fetch",
                                                  !.job = planificacion_jobs[j]])
          /\ UNCHANGED <<planificacion_jobs, planificacion_resultados>>
       \/ \E err \in StoreErrors : Raise(j, err)
    /\ UNCHANGED <<inputs, appVars, mainVars, consulta, respuesta>>

\* process_job, line 236: the static tables (pt, bom, comp) are read
FetchStaticData(j) ==
    /\ tasks[j].pc = "fetch"
    /\ \/ /\ tasks' = SetTask(j, [tasks[j] EXCEPT !.pc = "calc"])
          /\ UNCHANGED <<planificacion_jobs, planificacion_resultados>>
       \/ \E err \in StoreErrors : Raise(j, err)
    /\ UNCHANGED <<inputs, appVars, mainVars, consulta, respuesta>>

\* process_job, lines 239-241.  explosion_empaque returns the rows of
\* demanda_neta themselves, updated in place, so the payload is built from
\* the same list twice.
Calculos(j) ==
    /\ tasks[j].pc = "calc"
    /\ LET job == tasks[j].job
           dn  == calcular_demanda_neta(job.demanda, pt.rows)
           emp == explosion_empaque(dn, bom.rows, comp.rows)
       IN  tasks' = SetTask(j, [tasks[j] EXCEPT
                 !.pc = "upsert",
                 !.resultado = build_result_payload(job.week_start, job.week_end,
                                                    emp, emp)])
    /\ UNCHANGED <<inputs, appVars, mainVars, planificacion_jobs,
                   planificacion_resultados, consulta, respuesta>>

\* process_job, lines 244-248
GuardarResultado(j) ==
    /\ tasks[j].pc = "upsert"
    /\ \/ /\ planificacion_resultados' =
                Upsert(planificacion_resultados,
                       [job_id |-> j, resultado |-> tasks[j].resultado])
          /\ tasks' = SetTask(j, [tasks[j] EXCEPT !.pc = "done"])
          /\ UNCHANGED planificacion_jobs
       \/ \E err \in StoreErrors : Raise(j, err)
    /\ UNCHANGED <<inputs, appVars, mainVars, consulta, respuesta>>

\* process_job, lines 251-257
MarkDone(j) ==
    /\ tasks[j].pc = "done"
    /\ \/ /\ planificacion_jobs' =
                UpdateStatus(planificacion_jobs, j, "done", "None")
          /\ tasks' = SetTask(j, [tasks[j] EXCEPT !.pc = "end"])
          /\ UNCHANGED planificacion_resultados
       \/ \E err \in StoreErrors : Raise(j, err)
    /\ UNCHANGED <<inputs, appVars, mainVars, consulta, respuesta>>

\* process_job, lines 259-265: the handler of any exception of the try
\* block; when its own update raises, the task ends with the exception
MarkError(j) ==
    /\ tasks[j].pc = "except"
    /\ tasks' = SetTask(j, [tasks[j] EXCEPT !.pc = "end"])
    /\ \/ planificacion_jobs' =
             UpdateStatus(planificacion_jobs, j, "error", tasks[j].e)
       \/ UNCHANGED planificacion_jobs
    /\ UNCHANGED <<inputs, appVars, mainVars, planificacion_resultados,
                   consulta, respuesta>>

\* GET /planificacion/resultado/{job_id}, lines 296-306 and 317: the job
\* row is read; a job that is not done is answered with the job only.  For
\* an unknown job_id single() raises or returns no data, by client version.
ConsultaJob ==
    /\ consulta.pc = "idle"
    /\ \E id \in JobIds :
         IF id > Len(planificacion_jobs)
         THEN /\ \E code \in {404, 500} : respuesta' = [status_code |-> code]
              /\ UNCHANGED consulta
         ELSE LET job == JobView(planificacion_jobs[id])
              IN  IF EsDone(job.status)
                  THEN /\ consulta' = [pc |-> "resultado", job_id |-> id,
                                       job |-> job]
                       /\ UNCHANGED respuesta
                  ELSE /\ respuesta' = [status_code |-> 200, job |-> job]
                       /\ UNCHANGED consulta
    /\ UNCHANGED <<inputs, appVars, mainVars, planificacion_jobs,
                   planificacion_resultados, tasks>>

\* lines 308-315: the result row is read and returned with the job
ConsultaResultado ==
    /\ consulta.pc = "resultado"
    /\ LET res == {r \in planificacion_resultados : r.job_id = consulta.job_id}
       IN  respuesta' =
             [status_code |-> 200, job |-> consulta.job,
              resultado |-> IF res = {} THEN Null
                            ELSE (CHOOSE r \in res : TRUE).resultado]
    /\ consulta' = NoConsulta
    /\ UNCHANGED <<inputs, appVars, mainVars, planificacion_jobs,
                   planificacion_resultados, tasks>>

---------------------------------------------------------------------------
\* Specifications

Week ==
    /\ week_start = WeekStart
    /\ week_end = WeekEnd

\* Demand stage: the order table and the request list against the
\* finished-goods table.
InitDemand ==
    /\ Week /\ tolerance_days = 0
    /\ bom = NoTable /\ comp = NoTable
    /\ \/ pedidos \in PedidosRich /\ pt = PtOne /\ demanda = <<>>
       \/ pedidos \in PedidosSimple /\ pt \in PtTables /\ demanda = <<>>
       \/ pedidos = NoTable /\ pt \in PtTables /\ demanda \in Demandas
    /\ pc = "consolidate" /\ mpc = "neta"
    /\ AppIdle /\ MainIdle /\ JobsIdle

NextDemand == ConsolidateWeeklyDemand \/ NetDemand \/ CalcularDemandaNeta

SpecDemand == InitDemand /\ [][NextDemand]_vars

\* Packaging stage: both engines on the same net-demand rows and tables.
InitPkg ==
    /\ Week /\ tolerance_days \in 0..MaxTol
    /\ pedidos = NoTable /\ pt = NoTable /\ demanda = <<>>
    /\ bom \in BomTables /\ comp \in CompTables
    /\ demanda_bruta = <<>> /\ exp = <<>> /\ empaque_status = <<>>
    /\ out = <<>> /\ decisions = <<>> /\ ia_calls = <<>> /\ shown = <<>>
    /\ demanda_neta_df \in NetTables
    /\ demanda_neta = demanda_neta_df
    /\ estados = <<>> /\ empaque = <<>>
    /\ pc = "packaging" /\ mpc = "empaque"
    /\ JobsIdle

NextPkg == PackagingExplosion \/ ExplosionEmpaque

SpecPkg == InitPkg /\ [][NextPkg]_vars

\* The run of app.py from the button to the displayed table.
RunBoms ==
    {b \in BomTables :
        \A i \in 1..Len(b.rows) :
            /\ b.rows[i].Componente = CompOrder[1]
            /\ b.rows[i].Cantidad_por_unidad \in {Whole(1), NaN}}

RunComps ==
    {c \in CompTables :
        /\ Len(c.rows) <= 1
        /\ \A i \in 1..Len(c.rows) : c.rows[i].En_Proceso = Whole(0)}

Init ==
    /\ Week /\ tolerance_days = MaxTol
    /\ pedidos \in PedidosSimple
    /\ pt \in {NoTable, PtOne}
    /\ bom \in RunBoms /\ comp \in RunComps
    /\ demanda = <<>>
    /\ pc = "consolidate" /\ mpc = "neta"
    /\ AppIdle /\ MainIdle /\ JobsIdle

Next ==
    \/ ConsolidateWeeklyDemand
    \/ NetDemand
    \/ PackagingExplosion
    \/ Merge
    \/ DecideRow
    \/ Show

Spec == Init /\ [][Next]_vars

\* The job API of main.py: jobs are created, their tasks and the result
\* query interleave, and any Supabase call of a task may raise.
JobPt   == PtOne
JobBom  ==
    Table(BomCols,
          << [SKU |-> "A", Componente |-> "C1", Cantidad_por_unidad |-> Whole(1)] >>)
JobComp == Table(CompCols, << CompRow("C1", Whole(0), Whole(0), NaN) >>)

InitJobs ==
    /\ Week /\ tolerance_days = 0
    /\ pedidos = NoTable /\ demanda = <<>>
    /\ pt = JobPt /\ bom = JobBom /\ comp = JobComp
    /\ pc = "consolidate" /\ mpc = "neta"
    /\ AppIdle /\ MainIdle /\ JobsIdle

NextJobs ==
    \/ PlanificacionSemanal
    \* one step of the background task of a job (process_job)
    \/ \E j \in 1..Len(tasks) : MarkProcessing(j)
    \/ \E j \in 1..Len(tasks) : ReadJob(j)
    \/ \E j \in 1..Len(tasks) : FetchStaticData(j)
    \/ \E j \in 1..Len(tasks) : Calculos(j)
    \/ \E j \in 1..Len(tasks) : GuardarResultado(j)
    \/ \E j \in 1..Len(tasks) : MarkDone(j)
    \/ \E j \in 1..Len(tasks) : MarkError(j)
    \/ ConsultaJob
    \/ ConsultaResultado

SpecJobs == InitJobs /\ [][NextJobs]_vars

---------------------------------------------------------------------------
\* Properties of the decision step (specification Spec)

Dispatched(i) == \E k \in 1..Len(ia_calls) : ia_calls[k].row = i

\* C1: a row whose packaging status is BLOQUEADO is decided NO_PRODUCIR with
\* confidence 1.0 by decide_for_row, and the collaborator is never called
\* for it, whatever the other fields of the row are.
C1_BlockedRowDecidedLocally ==
    \A i \in 1..Len(out) :
        out[i].Estado_Empaque = "BLOQUEADO" =>
            /\ ~Dispatched(i)
            /\ i <= Len(decisions) =>
                  /\ decisions[i].decision = "NO_PRODUCIR"
                  /\ decisions[i].confianza = "1.0"

\* a blocked row has been decided, after a row that went to the collaborator
C1_Witness ==
    \E i, j \in 1..Len(decisions) :
        /\ out[i].Estado_Empaque = "BLOQUEADO"
        /\ out[i].Demanda_Neta > 0
        /\ Dispatched(j)

\* C2: a row whose net demand is 0 is decided NO_PRODUCIR by the decision
\* step, regardless of what the collaborator answers.
C2_ZeroDemandDecidedLocally ==
    \A i \in 1..Len(out) :
        (out[i].Demanda_Neta = 0 /\ i <= Len(decisions)) =>
            decisions[i].decision = "NO_PRODUCIR"

Malformed(r) ==
    \/ r.kind \in {"text", "array"}
    \/ r.kind = "object" /\ r.decision \notin Decisiones

\* C9: whatever the collaborator returns for a dispatched row, the decision
\* recorded for the row is one of the three decision values, and a malformed
\* response is recorded as NO_PRODUCIR with confidence 0.0 and the
\* collaborator-failure rationale.
C9_RecordedDecisionIsValid ==
    \A k \in 1..Len(ia_calls) :
        LET i == ia_calls[k].row
        IN  (i <= Len(decisions) /\ ia_calls[k].resp.kind # "timeout") =>
                /\ decisions[i].decision \in Decisiones
                /\ Malformed(ia_calls[k].resp) =>
                      /\ decisions[i].decision = "NO_PRODUCIR"
                      /\ decisions[i].confianza = "0.0"
                      /\ decisions[i].razon = FallbackDict.razon

\* C10: in a run over several products, a timeout or transport failure of
\* one collaborator call does not abort the run: that product gets the
\* fallback decision NO_PRODUCIR with confidence 0.0 and the run goes on.
C10_TimeoutDoesNotAbortRun ==
    \A k \in 1..Len(ia_calls) :
        (Len(out) >= 2 /\ ia_calls[k].resp.kind = "timeout") =>
            /\ pc # "raised"
            /\ ia_calls[k].row <= Len(decisions)
            /\ decisions[ia_calls[k].row].decision = "NO_PRODUCIR"
            /\ decisions[ia_calls[k].row].confianza = "0.0"

---------------------------------------------------------------------------
\* Properties of the demand stage (specification SpecDemand)

InWeek(cell) ==
    LET d == to_date_safe(cell)
    IN  d.some /\ week_start <= d.d /\ d.d <= week_end

RECURSIVE SumOrders(_)
SumOrders(ks) ==
    IF ks = {} THEN 0
    ELSE LET k == CHOOSE x \in ks : TRUE
         IN  to_int(pedidos.rows[k].Cantidad) + SumOrders(ks \ {k})

OrdersInWeek(sku) ==
    {k \in 1..Len(pedidos.rows) :
        pedidos.rows[k].SKU = sku /\ InWeek(pedidos.rows[k].Fecha_Requerida)}

\* C8: every product of the consolidated demand appears once, has at least
\* one order inside [week_start, week_end], and its gross demand is the sum
\* of the integer-coerced quantities of exactly its orders whose parsed date
\* is present and inside the closed interval.
C8_GrossDemandIsWindowSum ==
    pc # "consolidate" =>
        /\ \A i, j \in 1..Len(demanda_bruta) :
              demanda_bruta[i].SKU = demanda_bruta[j].SKU => i = j
        /\ \A i \in 1..Len(demanda_bruta) :
              /\ OrdersInWeek(demanda_bruta[i].SKU) # {}
              /\ demanda_bruta[i].Demanda_Bruta
                    = SumOrders(OrdersInWeek(demanda_bruta[i].SKU))

\* a product is in the output thanks to an order dated on the last day of
\* the week while another order of it, dated after the week or undated, is
\* left out of its sum
C8_Witness ==
    /\ pc # "consolidate"
    /\ \E i \in 1..Len(demanda_bruta), k, n \in 1..Len(pedidos.rows) :
          /\ pedidos.rows[k].SKU = demanda_bruta[i].SKU
          /\ pedidos.rows[n].SKU = demanda_bruta[i].SKU
          /\ pedidos.rows[k].Fecha_Requerida = Dt(week_end)
          /\ to_int(pedidos.rows[k].Cantidad) > 0
          /\ ~InWeek(pedidos.rows[n].Fecha_Requerida)
          /\ to_int(pedidos.rows[n].Cantidad) > 0
          /\ demanda_bruta[i].Demanda_Bruta = to_int(pedidos.rows[k].Cantidad)

\* the inventory on record for a product, 0 when there is none
InventarioApp(sku) ==
    IF {"SKU", "Inventario"} \subseteq pt.cols
       /\ \E k \in 1..Len(pt.rows) : pt.rows[k].SKU = sku
    THEN to_int(pt.rows[CHOOSE k \in 1..Len(pt.rows) : pt.rows[k].SKU = sku].Inventario)
    ELSE 0

InventarioMain(sku) ==
    IF \E k \in 1..Len(pt.rows) : pt.rows[k].SKU = sku
    THEN safe_int(pt.rows[CHOOSE k \in 1..Len(pt.rows) : pt.rows[k].SKU = sku].Inventario)
    ELSE 0

NetOf(gross, inv) == IF gross - inv > 0 THEN gross - inv ELSE 0

---------------------------------------------------------------------------
\* Properties of the packaging stage (specification SpecPkg)

AppRan  == pc # "packaging"
MainRan == mpc = "done"

\* the status the rule of the specification gives a component (halves)
ExpectedEstado(inv, wip, eta, req) ==
    IF inv >= req THEN "OK"
    ELSE IF eta.some /\ eta.d <= week_end + tolerance_days /\ inv + wip >= req
    THEN "RIESGO"
    ELSE "BLOQUEADO"

CompRowOf(c) ==
    comp.rows[CHOOSE k \in 1..Len(comp.rows) : comp.rows[k].Componente = c]

InCompTable(c) == \E k \in 1..Len(comp.rows) : comp.rows[k].Componente = c

LinesOf(sku) == SelectSeq(bom.rows, LAMBDA l : l.SKU = sku)

\* C3: for every BOM line of a product with positive net demand whose
\* component is in the component table, required = quantity-per-unit x net
\* demand and the component status is OK iff inventory >= required, else
\* RIESGO iff the estimated arrival is present, not after week_end +
\* tolerance_days, and inventory + WIP >= required, else BLOQUEADO; for
\* packaging_explosion and for explosion_empaque.
C3_ComponentStatusRule ==
    /\ AppRan =>
          \A i \in 1..Len(exp) :
              (exp[i].Demanda_Neta > 0 /\ exp[i].matched) =>
                  exp[i].CompEstado
                      = ExpectedEstado(2 * exp[i].Inv, 2 * exp[i].WIP,
                                       exp[i].ETA, exp[i].Req)
    /\ MainRan =>
          \A i \in 1..Len(estados) :
              \A k \in 1..Len(estados[i]) :
                  LET l == LinesOf(empaque[i].SKU)[k]
                  IN  (empaque[i].Demanda_Neta > 0 /\ InCompTable(l.Componente)) =>
                          estados[i][k]
                              = ExpectedEstado(
                                    safe_float(CompRowOf(l.Componente).Inventario),
                                    safe_float(CompRowOf(l.Componente).En_Proceso),
                                    to_date_safe(CompRowOf(l.Componente).Fecha_Estimada),
                                    safe_float(l.Cantidad_por_unidad)
                                        * empaque[i].Demanda_Neta)

Severest(es) ==
    IF \E e \in es : e = "BLOQUEADO" THEN "BLOQUEADO"
    ELSE IF \E e \in es : e = "RIESGO" THEN "RIESGO"
    ELSE "OK"

AppEstados(sku) == {exp[i].CompEstado : i \in {k \in 1..Len(exp) : exp[k].SKU = sku}}

TablesComplete ==
    /\ bom.rows # <<>> /\ BomCols \subseteq bom.cols
    /\ comp.rows # <<>> /\ CompCols \subseteq comp.cols

MainRollup ==
    MainRan =>
        \A i \in 1..Len(empaque) :
            empaque[i].Estado_Empaque = Severest(Range(estados[i]))

\* C4 as stated: every product in the output of either engine has the most
\* severe status among its components (BLOQUEADO over RIESGO over OK).
C4_RollupEveryOutput ==
    /\ MainRollup
    /\ AppRan =>
          \A i \in 1..Len(empaque_status) :
              empaque_status[i].Estado_Empaque
                  = Severest(AppEstados(empaque_status[i].SKU))

\* C4 as amended: every product in the output of explosion_empaque, and of
\* packaging_explosion when the BOM and component tables are non-empty and
\* have their required columns, has the most severe status among its
\* components (BLOQUEADO over RIESGO over OK).
C4_RollupWhenTablesComplete ==
    /\ MainRollup
    /\ (AppRan /\ TablesComplete) =>
          \A i \in 1..Len(empaque_status) :
              empaque_status[i].Estado_Empaque
                  = Severest(AppEstados(empaque_status[i].SKU))

\* both engines have rolled up a product with an OK line and a BLOQUEADO
\* line to BLOQUEADO
C4_Witness ==
    /\ pc = "merge" /\ MainRan /\ TablesComplete
    /\ \E i \in 1..Len(empaque_status), j \in 1..Len(empaque) :
          /\ empaque_status[i].Estado_Empaque = "BLOQUEADO"
          /\ AppEstados(empaque_status[i].SKU) = {"OK", "BLOQUEADO"}
          /\ empaque[j].SKU = empaque_status[i].SKU
          /\ empaque[j].Estado_Empaque = "BLOQUEADO"
          /\ Range(estados[j]) = {"OK", "BLOQUEADO"}

AbsentLine(sku) ==
    \E k \in 1..Len(bom.rows) :
        /\ bom.rows[k].SKU = sku
        /\ bom.rows[k].Componente # Blank
        /\ ~InCompTable(bom.rows[k].Componente)

AppEstadoOf(sku) ==
    IF \E i \in 1..Len(empaque_status) : empaque_status[i].SKU = sku
    THEN empaque_status[CHOOSE i \in 1..Len(empaque_status) :
                            empaque_status[i].SKU = sku].Estado_Empaque
    ELSE "none"

\* C5: with well-formed, non-empty tables, a product with positive net
\* demand and a BOM line whose component is not in the component table
\* makes the engine complete and report the product BLOQUEADO; for
\* packaging_explosion and for explosion_empaque.
C5_AbsentComponentBlocks ==
    /\ AppRan =>
          \A i \in 1..Len(demanda_neta_df) :
              (/\ demanda_neta_df[i].Demanda_Neta > 0
               /\ TablesComplete
               /\ AbsentLine(demanda_neta_df[i].SKU)) =>
                  /\ pc # "raised"
                  /\ AppEstadoOf(demanda_neta_df[i].SKU) = "BLOQUEADO"
    /\ MainRan =>
          \A i \in 1..Len(empaque) :
              (empaque[i].Demanda_Neta > 0 /\ AbsentLine(empaque[i].SKU)) =>
                  empaque[i].Estado_Empaque = "BLOQUEADO"

\* C6: a product whose net demand is zero gets packaging status OK from the
\* engine whatever the BOM and component tables contain; for
\* packaging_explosion and for explosion_empaque.
C6_ZeroDemandIsOK ==
    /\ AppRan =>
          \A i \in 1..Len(demanda_neta_df) :
              demanda_neta_df[i].Demanda_Neta = 0 =>
                  /\ pc # "raised"
                  /\ AppEstadoOf(demanda_neta_df[i].SKU) = "OK"
    /\ MainRan =>
          \A i \in 1..Len(empaque) :
              empaque[i].Demanda_Neta = 0 => empaque[i].Estado_Empaque = "OK"

---------------------------------------------------------------------------
\* Properties of the job store (specification SpecJobs)

StatusOf(T, j) == IF j <= Len(T) THEN T[j].status ELSE "absent"

LifecycleSteps ==
    {<<"absent", "queued">>, <<"queued", "processing">>,
     <<"processing", "done">>, <<"processing", "error">>}

\* C11: the status of every job only moves along queued -> processing ->
\* done or queued -> processing -> error, for any interleaving of the jobs
\* and any step of a task that raises: no step leaves done or error, none
\* goes back, and none reaches done or error from a status other than
\* processing.
C11_StatusLifecycle ==
    [][\A j \in JobIds :
          LET a == StatusOf(planificacion_jobs, j)
              b == StatusOf(planificacion_jobs', j)
          IN  a = b \/ <<a, b>> \in LifecycleSteps]_vars

TieneResultado(r) == "resultado" \in DOMAIN r

HayResultado(id) == \E r \in planificacion_resultados : r.job_id = id

\* C12: the result query returns a result payload only when the status it
\* read for the job is done; a response for a job read as queued,
\* processing or error holds the job record alone, also when a result row
\* of that job is already stored, and an unknown job_id gets no result.
C12_ResultOnlyWhenDone ==
    /\ consulta.pc = "resultado" => consulta.job.status = "done"
    /\ TieneResultado(respuesta) =>
          /\ respuesta.status_code = 200
          /\ respuesta.job.status = "done"
    /\ (respuesta.status_code = 200 /\ respuesta.job.status # "done") =>
          DOMAIN respuesta = {"status_code", "job"}

\* a job whose result row is stored was read with status error and answered
\* with the job record alone
C12_Witness ==
    /\ respuesta.status_code = 200
    /\ respuesta.job.status = "error"
    /\ ~TieneResultado(respuesta)
    /\ HayResultado(respuesta.job.job_id)

---------------------------------------------------------------------------
\* Frame of the packaging engines (specification SpecPkg)

\* C13: a call of the packaging engine leaves the net-demand rows, the BOM
\* lines and the component rows passed to it unchanged, field for field;
\* for packaging_explosion and for explosion_empaque.
C13_EngineHasNoSideEffects ==
    [][/\ PackagingExplosion =>
             /\ demanda_neta_df' = demanda_neta_df
             /\ bom' = bom /\ comp' = comp
       /\ ExplosionEmpaque =>
             /\ demanda_neta' = demanda_neta
             /\ bom' = bom /\ comp' = comp]_vars

---------------------------------------------------------------------------
\* The stored result (specification SpecJobs)

\* the rows the calculators give for the request of job id
NetaDe(id) == calcular_demanda_neta(planificacion_jobs[id].demanda, pt.rows)

EmpaqueDe(id) == explosion_empaque(NetaDe(id), bom.rows, comp.rows)

\* every row of dn is in rows at the same place, with the same values in
\* the fields the net-demand calculator writes
ContainsNetRows(rows, dn) ==
    /\ Len(rows) = Len(dn)
    /\ \A i \in 1..Len(dn) :
          \A f \in DOMAIN dn[i] : f \in DOMAIN rows[i] /\ rows[i][f] = dn[i][f]

\* C14: a job whose status is done has a result row under its job_id, and
\* a result query that read status done answers with a payload that is not
\* None and holds the week bounds, the net-demand rows and the packaging
\* rows of that job.
C14_DoneHasResult ==
    /\ \A j \in 1..Len(planificacion_jobs) :
          planificacion_jobs[j].status = "done" => HayResultado(j)
    /\ (respuesta.status_code = 200 /\ respuesta.job.status = "done") =>
          /\ TieneResultado(respuesta)
          /\ respuesta.resultado # Null
          /\ {"week", "demanda_neta", "empaque"} \subseteq DOMAIN respuesta.resultado
          /\ respuesta.resultado.week =
                [start |-> respuesta.job.week_start, end |-> respuesta.job.week_end]
          /\ ContainsNetRows(respuesta.resultado.demanda_neta,
                             NetaDe(respuesta.job.job_id))
          /\ respuesta.resultado.empaque = EmpaqueDe(respuesta.job.job_id)

\* a done job was queried and answered with packaging rows, one BLOQUEADO
C14_Witness ==
    /\ respuesta.status_code = 200
    /\ respuesta.job.status = "done"
    /\ TieneResultado(respuesta)
    /\ \E i \in 1..Len(respuesta.resultado.empaque) :
          respuesta.resultado.empaque[i].Estado_Empaque = "BLOQUEADO"

====
